---- MODULE Spec2Model ----
(***************************************************************************)
(* A model of the lisp-rust interpreter: the lexer (src/src/lexer.rs), the *)
(* recursive-descent parser (src/src/parser.rs), the evaluator             *)
(* (src/src/nodes.rs) and the scope chain and Interpretator                *)
(* (src/src/interpretator.rs).                                             *)
(*                                                                         *)
(* Representation.  A Rust String is a sequence of characters, each        *)
(* character a one-element TLA+ string.  Option<T> is None or a value.     *)
(* Result<T, E> is a record with kind "Ok" or "Err"; a Rust panic          *)
(* (unwrap on None, index out of bounds, unimplemented!) unwinds the whole *)
(* call stack and is the third kind "Panic".                               *)
(*                                                                         *)
(* An intermediate value that is used more than once is bound by           *)
(* x \in {v} inside Only({... : x \in {v}}): the value is computed once,   *)
(* as the local variable of the code is.                                   *)
(***************************************************************************)
EXTENDS Integers, Sequences, FiniteSets, TLC

VARIABLES
    lexer,      \* Lexer {input, read_position, ch}, plus the unwinding flag
    tokens,     \* the Vec<Token> tokenize accumulates
    lex_state,  \* where tokenize is: "run", "ok", "err" or "panic"
    lex_call,   \* the lexer at the last next_token call of tokenize, and its result
    parser,     \* Parser {tokens, pos}
    p_call,     \* the last Parser method called and the pos it was called at
    p_result,   \* what that call returned
    p_loop,     \* how the loop of parseProgram ended, and the nodes it had pushed
    scopes,     \* the live Scope objects; a parent reference is an index, 0 is None
    s_get,      \* the last Scope::get call and what it returned
    e_call,     \* the last Node::evaluate call: the node and the scope given
    e_result,   \* what that call returned
    run_source, \* the source text of the last Interpretator::run call
    run_result  \* what that call returned

varsLexer == <<lexer, tokens, lex_state, lex_call>>
varsParser == <<parser, p_call, p_result, p_loop>>
varsScope == <<scopes, s_get>>
varsEval == <<e_call, e_result>>
varsRun == <<run_source, run_result>>
vars == <<lexer, tokens, lex_state, lex_call, parser, p_call, p_result, p_loop,
          scopes, s_get, e_call, e_result, run_source, run_result>>

\* the element of a one-element set
Only(S) == CHOOSE x \in S : TRUE

-----------------------------------------------------------------------------
(* Bounds of the model *)

\* longest source text the lexer specification enumerates
MaxLen == 3

\* longest hand-built token vector the parser specification enumerates
MaxTokens == 4

\* most Scope objects alive at once in the scope specification
MaxScopes == 3

\* most declared parameters of a function value, most arguments of a call
MaxArity == 2
MaxArgs == 2

\* longest enumerated source text given to Interpretator::run
MaxRunLen == 1

-----------------------------------------------------------------------------
(* Characters *)

None == "None"

\* a character whose UTF-8 encoding is two bytes long (U+00E9)
EAcute == "e'"

Delimiters == {"(", ")", "[", "]", "{", "}"}
Digits == {"0", "1", "2", "3", "4", "5", "6", "7", "8", "9"}

\* the characters the enumerated source texts are built from
Alphabet == Delimiters \cup {".", "-", "\"", " ", "1", "a", EAcute}

\* char::len_utf8
Utf8Len(c) == IF c = EAcute THEN 2 ELSE 1

\* String::len, the length in bytes
RECURSIVE ByteLen(_)
ByteLen(s0) ==
    Only({IF s = <<>> THEN 0 ELSE Utf8Len(Head(s)) + ByteLen(Tail(s)) : s \in {s0}})

\* char::is_whitespace
is_whitespace(c) == c \in {" ", "\n", "\t"}

\* char::is_numeric
is_numeric(c) == c \in Digits

is_language_symbol(c) == c \in Delimiters \cup {"."}

-----------------------------------------------------------------------------
(* f64 and str::parse::<f64> *)

\* An f64 is the exact decimal num / den with den a power of ten and no
\* trailing zero kept; den = 0 stands for the infinities (num = 1, -1) and
\* NaN (num = 0).
RECURSIVE NormF64(_, _)
NormF64(num, den) ==
    IF den > 1 /\ num % 10 = 0 THEN NormF64(num \div 10, den \div 10)
    ELSE [num |-> num, den |-> den]

NegF64(x) == [num |-> 0 - x.num, den |-> x.den]

DigitVal(c) ==
    CASE c = "0" -> 0 [] c = "1" -> 1 [] c = "2" -> 2 [] c = "3" -> 3
      [] c = "4" -> 4 [] c = "5" -> 5 [] c = "6" -> 6 [] c = "7" -> 7
      [] c = "8" -> 8 [] c = "9" -> 9

\* the digits of s read as one integer, the dot skipped
RECURSIVE DecNum(_, _)
DecNum(s0, acc0) ==
    Only({IF s = <<>> THEN acc
          ELSE IF Head(s) = "." THEN DecNum(Tail(s), acc)
          ELSE DecNum(Tail(s), 10 * acc + DigitVal(Head(s))) :
          s \in {s0}, acc \in {acc0}})

\* ten to the number of digits after the dot
RECURSIVE DecDen(_, _)
DecDen(s0, seen) ==
    Only({IF s = <<>> THEN 1
          ELSE IF Head(s) = "." THEN DecDen(Tail(s), TRUE)
          ELSE (IF seen THEN 10 ELSE 1) * DecDen(Tail(s), seen) : s \in {s0}})

Count(s, c) == Cardinality({i \in DOMAIN s : s[i] = c})

\* digits with at most one dot and at least one digit: "1", "1.", ".1", "1.2"
IsDecimal(s) ==
    /\ \A i \in DOMAIN s : s[i] \in Digits \cup {"."}
    /\ Count(s, ".") <= 1
    /\ \E i \in DOMAIN s : s[i] \in Digits

\* str::parse::<f64>: an optional sign, then a decimal, "inf", "infinity"
\* or "nan".  (Exponents are not modelled: no enumerated text holds an e.)
ParseF64(s) ==
    LET signed == s # <<>> /\ Head(s) \in {"-", "+"}
        body   == IF signed THEN Tail(s) ELSE s
        neg    == signed /\ Head(s) = "-"
        sgn(x) == IF neg THEN NegF64(x) ELSE x
    IN  IF IsDecimal(body)
          THEN [ok |-> TRUE, n |-> sgn(NormF64(DecNum(body, 0), DecDen(body, FALSE)))]
        ELSE IF body \in {<<"i", "n", "f">>, <<"i", "n", "f", "i", "n", "i", "t", "y">>}
          THEN [ok |-> TRUE, n |-> sgn([num |-> 1, den |-> 0])]
        ELSE IF body = <<"n", "a", "n">>
          THEN [ok |-> TRUE, n |-> [num |-> 0, den |-> 0]]
        ELSE [ok |-> FALSE, n |-> [num |-> 0, den |-> 0]]

-----------------------------------------------------------------------------
(* Tokens *)

TokOpenParen    == [tok |-> "OpenParen"]
TokCloseParen   == [tok |-> "CloseParen"]
TokOpenBracket  == [tok |-> "OpenBracket"]
TokCloseBracket == [tok |-> "CloseBracket"]
TokOpenBrace    == [tok |-> "OpenBrace"]
TokCloseBrace   == [tok |-> "CloseBrace"]
TokDot          == [tok |-> "Dot"]
TokEOF          == [tok |-> "EOF"]
TokIdentifier(s) == [tok |-> "Identifier", s |-> s]
TokNumber(n)     == [tok |-> "Number", n |-> n]
TokString(s)     == [tok |-> "String", str |-> s]
TokBool(b)       == [tok |-> "Bool", b |-> b]

-----------------------------------------------------------------------------
(* Lexer *)

\* Lexer::read_char.  chars().nth(read_position) is None, and the unwrap
\* panics, when read_position is below the byte length but not below the
\* character count.
read_char(L0) ==
    Only({IF L.panic THEN L
          ELSE IF L.read_position >= ByteLen(L.input)
            THEN [L EXCEPT !.ch = None, !.read_position = @ + 1]
          ELSE IF L.read_position < Len(L.input)
            THEN [L EXCEPT !.ch = L.input[L.read_position + 1],
                           !.read_position = @ + 1]
          ELSE [L EXCEPT !.panic = TRUE] : L \in {L0}})

\* Lexer::new
LexerNew(input) ==
    read_char([input |-> input, read_position |-> 0, ch |-> None, panic |-> FALSE])

RECURSIVE skip_whitespace(_)
skip_whitespace(L0) ==
    Only({IF L.panic \/ L.ch = None \/ ~is_whitespace(L.ch) THEN L
          ELSE skip_whitespace(read_char(L)) : L \in {L0}})

\* the loop of read_identifier; result is the text read so far
RECURSIVE read_identifier_loop(_, _)
read_identifier_loop(L0, result0) ==
    Only({IF L.panic \/ L.ch = None THEN [lexer |-> L, result |-> result]
          ELSE IF ~is_whitespace(L.ch) /\ ~is_language_symbol(L.ch)
            THEN read_identifier_loop(read_char(L), Append(result, L.ch))
          ELSE [lexer |-> L, result |-> result] : L \in {L0}, result \in {result0}})

read_identifier(L) == read_identifier_loop(L, <<>>)

\* the loop of read_number
RECURSIVE read_number_loop(_, _)
read_number_loop(L0, result0) ==
    Only({IF L.panic \/ L.ch = None THEN [lexer |-> L, result |-> result]
          ELSE IF is_whitespace(L.ch) \/ (is_language_symbol(L.ch) /\ L.ch # ".")
            THEN [lexer |-> L, result |-> result]
          ELSE read_number_loop(read_char(L), Append(result, L.ch)) :
          L \in {L0}, result \in {result0}})

\* Lexer::read_number: the text read, and what parse::<f64> makes of it
read_number(L) ==
    Only({[lexer |-> r.lexer, result |-> r.result, parsed |-> ParseF64(r.result)] :
          r \in {read_number_loop(L, <<>>)}})

\* the loop of read_string; closed tells whether the closing quote was met
RECURSIVE read_string_loop(_, _)
read_string_loop(L0, result0) ==
    Only({IF L.panic \/ L.ch = None
            THEN [lexer |-> L, result |-> result, closed |-> FALSE]
          ELSE IF L.ch = "\""
            THEN [lexer |-> read_char(L), result |-> result, closed |-> TRUE]
          ELSE read_string_loop(read_char(L), Append(result, L.ch)) :
          L \in {L0}, result \in {result0}})

read_string(L) == read_string_loop(read_char(L), <<>>)

TokOk(L0, t) ==
    Only({[lexer |-> L, kind |-> IF L.panic THEN "Panic" ELSE "Ok", tok |-> t] :
          L \in {L0}})
TokErr(L0, e, text) ==
    Only({[lexer |-> L, kind |-> IF L.panic THEN "Panic" ELSE "Err",
           err |-> [e |-> e, text |-> text]] : L \in {L0}})

\* Lexer::next_token
next_token(L0) ==
    Only({
        IF L.panic THEN TokOk(L, TokEOF)
        ELSE IF L.ch = None THEN TokOk(L, TokEOF)
        ELSE IF L.ch = "{" THEN TokOk(read_char(L), TokOpenBrace)
        ELSE IF L.ch = "}" THEN TokOk(read_char(L), TokCloseBrace)
        ELSE IF L.ch = "(" THEN TokOk(read_char(L), TokOpenParen)
        ELSE IF L.ch = ")" THEN TokOk(read_char(L), TokCloseParen)
        ELSE IF L.ch = "[" THEN TokOk(read_char(L), TokOpenBracket)
        ELSE IF L.ch = "]" THEN TokOk(read_char(L), TokCloseBracket)
        ELSE IF L.ch = "." THEN TokOk(read_char(L), TokDot)
        ELSE IF L.ch = "-" THEN
            Only({IF r.parsed.ok THEN TokOk(r.lexer, TokNumber(NegF64(r.parsed.n)))
                  ELSE TokErr(r.lexer, "InvalidNumber", r.result) :
                  r \in {read_number(read_char(L))}})
        ELSE IF L.ch = "\"" THEN
            Only({IF r.closed THEN TokOk(r.lexer, TokString(r.result))
                  ELSE TokErr(r.lexer, "UnclosedString", r.result) :
                  r \in {read_string(L)}})
        ELSE IF is_numeric(L.ch) THEN
            Only({IF r.parsed.ok THEN TokOk(r.lexer, TokNumber(r.parsed.n))
                  ELSE TokErr(r.lexer, "InvalidNumber", r.result) :
                  r \in {read_number(L)}})
        ELSE
            Only({IF r.result = <<"t", "r", "u", "e">> THEN TokOk(r.lexer, TokBool(TRUE))
                  ELSE IF r.result = <<"f", "a", "l", "s", "e">>
                    THEN TokOk(r.lexer, TokBool(FALSE))
                  ELSE TokOk(r.lexer, TokIdentifier(r.result)) :
                  r \in {read_identifier(L)}})
        : L \in {skip_whitespace(L0)}})

\* one round of the loop of Lexer::tokenize
tokenize_step_NoPush(L, toks) ==
    Only({CASE r.kind = "Panic" ->
                 [lexer |-> r.lexer, tokens |-> toks, state |-> "panic"]
            [] r.kind = "Err" ->
                 [lexer |-> r.lexer, tokens |-> toks, state |-> "err", err |-> r.err]
            [] r.kind = "Ok" /\ r.tok = TokEOF ->
                 [lexer |-> r.lexer, tokens |-> toks, state |-> "ok"]
            [] OTHER ->
                 [lexer |-> r.lexer, tokens |-> Append(toks, r.tok), state |-> "run"] :
          r \in {next_token(L)}})
tokenize_step(L, toks) ==
    Only({CASE r.kind = "Panic" ->
                 [lexer |-> r.lexer, tokens |-> toks, state |-> "panic"]
            [] r.kind = "Err" ->
                 [lexer |-> r.lexer, tokens |-> toks, state |-> "err", err |-> r.err]
            [] r.kind = "Ok" /\ r.tok = TokEOF ->
                 [lexer |-> r.lexer, tokens |-> Append(toks, r.tok), state |-> "ok"]
            [] OTHER ->
                 [lexer |-> r.lexer, tokens |-> Append(toks, r.tok), state |-> "run"] :
          r \in {next_token(L)}})

\* Lexer::tokenize, run to its end
RECURSIVE tokenize_loop(_, _)
tokenize_loop(L, toks) ==
    Only({IF r.state = "run" THEN tokenize_loop(r.lexer, r.tokens) ELSE r :
          r \in {tokenize_step(L, toks)}})

tokenize(input) == tokenize_loop(LexerNew(input), <<>>)

\* every text of at most n characters of the alphabet
RECURSIVE Texts(_)
Texts(n) ==
    IF n = 0 THEN {<<>>}
    ELSE LET shorter == Texts(n - 1)
         IN  shorter \cup {Append(s, c) : s \in {t \in shorter : Len(t) = n - 1},
                                          c \in Alphabet}

-----------------------------------------------------------------------------
(* Values and nodes *)

VNumber(n)   == [t |-> "Number", n |-> n]
VString(s)   == [t |-> "String", s |-> s]
VBoolean(b)  == [t |-> "Boolean", b |-> b]
VList(l)     == [t |-> "List", l |-> l]
VMap(m)      == [t |-> "Map", m |-> m]
VFunction(f) == [t |-> "Function", f |-> f]
VNull        == [t |-> "Null"]

Native(name, args, func) ==
    [variant |-> "Native", name |-> name, args |-> args, func |-> func]
UserDefined(args, body) == [variant |-> "UserDefined", args |-> args, body |-> body]

Atom(v)                  == [type |-> "Atom", v |-> v]
FunctionCall(name, args) == [type |-> "FunctionCall", name |-> name, args |-> args]
Program(nodes)           == [type |-> "Program", nodes |-> nodes]
Variable(name)           == [type |-> "Variable", name |-> name]
NodeEOF                  == [type |-> "EOF"]

-----------------------------------------------------------------------------
(* Parser *)

POk(node, pos)  == [kind |-> "Ok", node |-> node, pos |-> pos]
PErr(err, pos)  == [kind |-> "Err", err |-> err, pos |-> pos]
PPanic(why, pos) == [kind |-> "Panic", why |-> why, pos |-> pos]

UnexpectedToken(t)  == [e |-> "UnexpectedToken", token |-> t]
UnexpectedEndOfFile == [e |-> "UnexpectedEndOfFile"]
ParserStateError(s) == [e |-> "ParserStateError", msg |-> s]

\* Parser::new
ParserNew(toks) == [tokens |-> toks, pos |-> 0]

RECURSIVE parse_node(_, _)
RECURSIVE parse_list_loop(_, _, _)
RECURSIVE parse_args_loop(_, _, _, _)
RECURSIVE parse_function_call(_, _)

\* the loop of Parser::parse_list; curr_token indexes tokens[pos]
parse_list_loop_NoEOFCheck(T, pos, nodes) ==
    IF pos >= Len(T) THEN PPanic("index out of bounds", pos)
    ELSE IF T[pos + 1] = TokCloseBracket THEN POk(Atom(VList(nodes)), pos + 1)
    ELSE Only({IF r.kind # "Ok" THEN r
               ELSE parse_list_loop(T, r.pos, Append(nodes, r.node)) :
               r \in {parse_node(T, pos)}})
parse_list_loop(T, pos, nodes) ==
    IF pos >= Len(T) THEN PPanic("index out of bounds", pos)
    ELSE IF T[pos + 1] = TokCloseBracket THEN POk(Atom(VList(nodes)), pos + 1)
    ELSE Only({IF r.kind # "Ok" THEN r
               ELSE IF r.node = NodeEOF THEN PErr(UnexpectedEndOfFile, r.pos)
               ELSE parse_list_loop(T, r.pos, Append(nodes, r.node)) :
               r \in {parse_node(T, pos)}})

parse_list(T, pos) == parse_list_loop(T, pos, <<>>)

\* the argument loop of Parser::parse_function_call
parse_args_loop(T, pos, name, args) ==
    IF pos >= Len(T) THEN PPanic("index out of bounds", pos)
    ELSE IF T[pos + 1] = TokCloseParen THEN POk(FunctionCall(name, args), pos + 1)
    ELSE Only({IF r.kind # "Ok" THEN r
               ELSE IF r.node = NodeEOF THEN PErr(UnexpectedEndOfFile, r.pos)
               ELSE parse_args_loop(T, r.pos, name, Append(args, r.node)) :
               r \in {parse_node(T, pos)}})

\* Parser::parse_function_call.  The UnexpectedToken error is built from
\* curr_token(), the token after the callee node.
parse_function_call(T, pos) ==
    Only({IF r.kind # "Ok" THEN r
          ELSE IF r.node.type # "Variable" THEN
              IF r.pos >= Len(T) THEN PPanic("index out of bounds", r.pos)
              ELSE PErr(UnexpectedToken(T[r.pos + 1]), r.pos)
          ELSE parse_args_loop(T, r.pos, r.node.name, <<>>) :
          r \in {parse_node(T, pos)}})

\* Parser::parse_node
parse_node(T, pos) ==
    IF pos >= Len(T) THEN PPanic("index out of bounds", pos)
    ELSE LET t == T[pos + 1]
         IN  CASE t.tok = "EOF"         -> POk(NodeEOF, pos + 1)
               [] t.tok = "Number"      -> POk(Atom(VNumber(t.n)), pos + 1)
               [] t.tok = "String"      -> POk(Atom(VString(t.str)), pos + 1)
               [] t.tok = "Bool"        -> POk(Atom(VBoolean(t.b)), pos + 1)
               [] t.tok = "Identifier"  -> POk(Variable(t.s), pos + 1)
               [] t.tok = "OpenBracket" -> parse_list(T, pos + 1)
               [] t.tok = "OpenParen"   -> parse_function_call(T, pos + 1)
               [] OTHER                 -> PPanic("unimplemented", pos)

\* the loop of Parser::parseProgram: the nodes pushed, or the failure of a
\* parse_node call
RECURSIVE parseProgram_loop(_, _, _)
parseProgram_loop(T, pos, nodes) ==
    IF pos < Len(T)
      THEN Only({IF r.kind # "Ok" THEN [kind |-> r.kind, res |-> r, nodes |-> nodes]
                 ELSE parseProgram_loop(T, r.pos, Append(nodes, r.node)) :
                 r \in {parse_node(T, pos)}})
    ELSE [kind |-> "Ok", pos |-> pos, nodes |-> nodes]

\* the match on nodes.last() that ends Parser::parseProgram
parseProgram_last_NoCheck(nodes, pos) ==
    IF nodes = <<>> THEN PErr(ParserStateError("Empty program"), pos)
    ELSE POk(Program(nodes), pos)
parseProgram_last(nodes, pos) ==
    IF nodes = <<>> THEN PErr(ParserStateError("Empty program"), pos)
    ELSE IF nodes[Len(nodes)] = NodeEOF THEN POk(Program(nodes), pos)
    ELSE PErr(ParserStateError("Expected EOF"), pos)

\* Parser::parseProgram
parseProgram(T, pos) ==
    Only({IF l.kind # "Ok" THEN l.res ELSE parseProgram_last(l.nodes, l.pos) :
          l \in {parseProgram_loop(T, pos, <<>>)}})

-----------------------------------------------------------------------------
(* Scope *)

\* Option<&Value>
SomeV(v) == [some |-> TRUE, v |-> v]
NoneV    == [some |-> FALSE]

\* HashMap::new and HashMap::insert
EmptyMap == [k \in {} |-> k]
MapInsert(m, k, v) == [x \in DOMAIN m \cup {k} |-> IF x = k THEN v ELSE m[x]]

\* Scope::new: a scope with no variables that refers to parent
ScopeNew_Alias(sc, parent) ==
    IF parent = 0 THEN Append(sc, [variables |-> EmptyMap, parent |-> 0]) ELSE sc
ScopeNew(sc, parent) == Append(sc, [variables |-> EmptyMap, parent |-> parent])

\* Scope::get
ScopeGet_NoParent(sc, s, name) ==
    IF name \in DOMAIN sc[s].variables THEN SomeV(sc[s].variables[name]) ELSE NoneV
RECURSIVE ScopeGet(_, _, _)
ScopeGet(sc, s, name) ==
    IF name \in DOMAIN sc[s].variables THEN SomeV(sc[s].variables[name])
    ELSE IF sc[s].parent # 0 THEN ScopeGet(sc, sc[s].parent, name)
    ELSE NoneV

\* Scope::set
ScopeSet_Parent(sc, s, name, value) ==
    IF sc[s].parent # 0 /\ name \in DOMAIN sc[sc[s].parent].variables
      THEN [sc EXCEPT ![sc[s].parent].variables = MapInsert(@, name, value)]
    ELSE [sc EXCEPT ![s].variables = MapInsert(@, name, value)]
ScopeSet(sc, s, name, value) == [sc EXCEPT ![s].variables = MapInsert(@, name, value)]

\* the scopes created since the arena had n of them go out of scope
ScopeDrop(sc, n) == SubSeq(sc, 1, n)

-----------------------------------------------------------------------------
(* Evaluator *)

\* A result carries the scopes as the call leaves them and the calls of
\* native callbacks it made, in order.
EOk(v, sc, calls)      == [kind |-> "Ok", v |-> v, scopes |-> sc, calls |-> calls]
EErr(e, sc, calls)     == [kind |-> "Err", err |-> e, scopes |-> sc, calls |-> calls]
EPanic(why, sc, calls) == [kind |-> "Panic", why |-> why, scopes |-> sc, calls |-> calls]

\* the messages Node::evaluate formats
NotDefined(name)   == [msg |-> "{} is not defined", name |-> name]
NotAFunction(name) == [msg |-> "{} is not a function", name |-> name]
ArityError(name, expected, given) ==
    [msg |-> "Function {} takes {} arguments, but {} were given",
     name |-> name, expected |-> expected, given |-> given]

\* The host callbacks of the native functions: "first" returns its first
\* argument (Null when it has none), "fail" returns an error.
NativeCall(func, args) ==
    IF func = "first"
      THEN [kind |-> "Ok", v |-> IF args = <<>> THEN VNull ELSE args[1]]
    ELSE [kind |-> "Err", err |-> [msg |-> "native failure"]]

\* the test args.len() != arg_names.len()
arity_mismatch_TooMany(args, arg_names) == Len(args) > Len(arg_names)
arity_mismatch(args, arg_names) == Len(args) # Len(arg_names)

RECURSIVE Evaluate(_, _, _)
RECURSIVE evaluate_args(_, _, _, _, _, _, _, _)
RECURSIVE evaluate_body(_, _, _, _, _)
RECURSIVE evaluate_program(_, _, _, _, _, _)

\* the loop over the arguments: each is evaluated in the caller's scope s
\* and bound in new_scope
evaluate_args_Reversed(args, arg_names, i, sc, s, new_scope, values, calls) ==
    IF i > Len(args)
      THEN [kind |-> "Ok", values |-> values, scopes |-> sc, calls |-> calls]
    ELSE Only({IF r.kind # "Ok" THEN [r EXCEPT !.calls = calls \o r.calls]
               ELSE evaluate_args(args, arg_names, i + 1,
                                  ScopeSet(r.scopes, new_scope,
                                           arg_names[Len(args) + 1 - i], r.v),
                                  s, new_scope, Append(values, r.v), calls \o r.calls) :
               r \in {Evaluate(args[i], sc, s)}})
evaluate_args(args, arg_names, i, sc, s, new_scope, values, calls) ==
    IF i > Len(args)
      THEN [kind |-> "Ok", values |-> values, scopes |-> sc, calls |-> calls]
    ELSE Only({IF r.kind # "Ok" THEN [r EXCEPT !.calls = calls \o r.calls]
               ELSE evaluate_args(args, arg_names, i + 1,
                                  ScopeSet(r.scopes, new_scope, arg_names[i], r.v),
                                  s, new_scope, Append(values, r.v), calls \o r.calls) :
               r \in {Evaluate(args[i], sc, s)}})

\* the loop over the body of a user-defined function: result is assigned
\* the result of every node, and the last assignment is returned
evaluate_body(body, i, s, result, calls) ==
    IF i > Len(body) THEN [result EXCEPT !.calls = calls]
    ELSE Only({IF r.kind = "Panic" THEN [r EXCEPT !.calls = calls \o r.calls]
               ELSE evaluate_body(body, i + 1, s, r, calls \o r.calls) :
               r \in {Evaluate(body[i], result.scopes, s)}})

\* the loop over the nodes of a Program: an error returns at once
evaluate_program_SkipEOF(nodes, i, sc, s, result, calls) ==
    IF i > Len(nodes) THEN EOk(result, sc, calls)
    ELSE Only({IF r.kind # "Ok" THEN [r EXCEPT !.calls = calls \o r.calls]
               ELSE evaluate_program(nodes, i + 1, r.scopes, s,
                                     IF nodes[i] = NodeEOF THEN result ELSE r.v,
                                     calls \o r.calls) :
               r \in {Evaluate(nodes[i], sc, s)}})
evaluate_program(nodes, i, sc, s, result, calls) ==
    IF i > Len(nodes) THEN EOk(result, sc, calls)
    ELSE Only({IF r.kind # "Ok" THEN [r EXCEPT !.calls = calls \o r.calls]
               ELSE evaluate_program(nodes, i + 1, r.scopes, s, r.v, calls \o r.calls) :
               r \in {Evaluate(nodes[i], sc, s)}})

\* the Value::Function arm of Node::evaluate
call_function_FromGlobal(name, f, args, sc, s) ==
    Only({
        IF arity_mismatch(args, f.args)
          THEN EErr(ArityError(name, Len(f.args), Len(args)), ScopeDrop(sc1, n), <<>>)
        ELSE Only({
            IF a.kind # "Ok" THEN [a EXCEPT !.scopes = ScopeDrop(@, n)]
            ELSE IF f.variant = "UserDefined"
              THEN Only({[b EXCEPT !.scopes = ScopeDrop(@, n)] :
                         b \in {evaluate_body(f.body, 1, Len(sc2),
                                              EOk(VNull, sc2, <<>>), a.calls) :
                                sc2 \in {ScopeNew(a.scopes, new_scope)}}})
            ELSE Only({IF r.kind = "Ok" THEN EOk(r.v, ScopeDrop(a.scopes, n), calls)
                       ELSE EErr(r.err, ScopeDrop(a.scopes, n), calls) :
                       r \in {NativeCall(f.func, a.values)},
                       calls \in {Append(a.calls, [name |-> f.name, args |-> a.values])}})
            : a \in {evaluate_args(args, f.args, 1, sc1, s, new_scope, <<>>, <<>>)}})
        : sc1 \in {ScopeNew(sc, 1)}, new_scope \in {Len(ScopeNew(sc, s))}, n \in {Len(sc)}})
call_function(name, f, args, sc, s) ==
    Only({
        IF arity_mismatch(args, f.args)
          THEN EErr(ArityError(name, Len(f.args), Len(args)), ScopeDrop(sc1, n), <<>>)
        ELSE Only({
            IF a.kind # "Ok" THEN [a EXCEPT !.scopes = ScopeDrop(@, n)]
            ELSE IF f.variant = "UserDefined"
              THEN Only({[b EXCEPT !.scopes = ScopeDrop(@, n)] :
                         b \in {evaluate_body(f.body, 1, Len(sc2),
                                              EOk(VNull, sc2, <<>>), a.calls) :
                                sc2 \in {ScopeNew(a.scopes, new_scope)}}})
            ELSE Only({IF r.kind = "Ok" THEN EOk(r.v, ScopeDrop(a.scopes, n), calls)
                       ELSE EErr(r.err, ScopeDrop(a.scopes, n), calls) :
                       r \in {NativeCall(f.func, a.values)},
                       calls \in {Append(a.calls, [name |-> f.name, args |-> a.values])}})
            : a \in {evaluate_args(args, f.args, 1, sc1, s, new_scope, <<>>, <<>>)}})
        : sc1 \in {ScopeNew(sc, s)}, new_scope \in {Len(ScopeNew(sc, s))}, n \in {Len(sc)}})

\* Node::evaluate
Evaluate(node, sc, s) ==
    CASE node.type = "Atom" -> EOk(node.v, sc, <<>>)
      [] node.type = "FunctionCall" ->
           Only({IF ~func.some THEN EErr(NotDefined(node.name), sc, <<>>)
                 ELSE IF func.v.t = "Function"
                   THEN call_function(node.name, func.v.f, node.args, sc, s)
                 ELSE EErr(NotAFunction(node.name), sc, <<>>) :
                 func \in {ScopeGet(sc, s, node.name)}})
      [] node.type = "Program" -> evaluate_program(node.nodes, 1, sc, s, VNull, <<>>)
      [] node.type = "Variable" ->
           Only({IF v.some THEN EOk(v.v, sc, <<>>)
                 ELSE EPanic("unwrap on None", sc, <<>>) :
                 v \in {ScopeGet(sc, s, node.name)}})
      [] node.type = "EOF" -> EOk(VNull, sc, <<>>)

\* Interpretator::run on the interpretator whose global scope is sc[1]
run(source, sc) ==
    Only({
        IF lexed.state = "panic" THEN EPanic("unwrap on None", sc, <<>>)
        ELSE IF lexed.state = "err"
          THEN EErr([error |-> "LexerError", e |-> lexed.err], sc, <<>>)
        ELSE Only({
            IF parsed.kind = "Panic" THEN EPanic(parsed.why, sc, <<>>)
            ELSE IF parsed.kind = "Err"
              THEN EErr([error |-> "ParserError", e |-> parsed.err], sc, <<>>)
            ELSE Only({IF r.kind = "Err"
                         THEN [r EXCEPT !.err = [error |-> "EvaluationError", e |-> @]]
                       ELSE r : r \in {Evaluate(parsed.node, sc, 1)}})
            : parsed \in {parseProgram(lexed.tokens, 0)}})
        : lexed \in {tokenize(source)}})

-----------------------------------------------------------------------------
(* The parser specification: the public methods of a Parser built with     *)
(* Parser::new on a hand-built token vector, or with Parser::from_source   *)

NameF == <<"f">>
NameG == <<"g">>
NameX == <<"x">>
NameY == <<"y">>
One == [num |-> 1, den |-> 1]
Two == [num |-> 2, den |-> 1]

\* the tokens the hand-built token vectors are made of
TokenAlphabet ==
    {TokOpenParen, TokCloseParen, TokOpenBracket, TokCloseBracket, TokOpenBrace,
     TokCloseBrace, TokDot, TokIdentifier(NameF), TokNumber(One), TokEOF}

RECURSIVE TokenVectors(_)
TokenVectors(n) ==
    IF n = 0 THEN {<<>>}
    ELSE LET shorter == TokenVectors(n - 1)
         IN  shorter \cup {Append(s, t) : s \in {v \in shorter : Len(v) = n - 1},
                                          t \in TokenAlphabet}

\* the token vectors of the list tests of the parser, and an unclosed
\* nested list
ListVectors ==
    {<<TokOpenBracket, TokNumber(One), TokNumber(Two), TokNumber(One),
       TokCloseBracket, TokEOF>>,
     <<TokOpenBracket, TokString(<<"f", "o", "o">>), TokOpenBracket, TokNumber(One),
       TokNumber(Two), TokNumber(One), TokCloseBracket, TokCloseBracket, TokEOF>>,
     <<TokOpenBracket, TokNumber(One), TokNumber(Two), TokNumber(One), TokEOF>>,
     <<TokOpenBracket, TokNumber(One), TokOpenBracket, TokNumber(Two), TokEOF>>}

\* the token vectors Lexer::tokenize returns for the enumerated texts
LexedVectors ==
    {tokenize(text).tokens : text \in {x \in Texts(MaxLen) : tokenize(x).state = "ok"}}

-----------------------------------------------------------------------------
(* The state of the components a specification does not exercise *)

NoCall == [method |-> "none", pos |-> 0]
NoResult == [kind |-> "None"]
NoLexCall == [from |-> LexerNew(<<>>), res |-> NoResult]
NoGet == [scope |-> 0]
NoEval == [scope |-> 0]
NoLoop == [kind |-> "None", nodes |-> <<>>]

\* Scope::new(None), the global scope of Interpretator::new(None)
RootScope == <<[variables |-> EmptyMap, parent |-> 0]>>

LexerIdle ==
    lexer = LexerNew(<<>>) /\ tokens = <<>> /\ lex_state = "idle" /\ lex_call = NoLexCall
ParserIdle ==
    parser = ParserNew(<<>>) /\ p_call = NoCall /\ p_result = NoResult /\ p_loop = NoLoop
ScopeIdle == scopes = RootScope /\ s_get = NoGet
EvalIdle == e_call = NoEval /\ e_result = NoResult
RunIdle == run_source = <<>> /\ run_result = NoResult

-----------------------------------------------------------------------------
(* The lexer specification: tokenize on every text of up to MaxLen chars *)

InitLexer ==
    /\ \E input \in Texts(MaxLen) : lexer = LexerNew(input)
    /\ tokens = <<>>
    /\ lex_state = "run"
    /\ lex_call = NoLexCall
    /\ ParserIdle /\ ScopeIdle /\ EvalIdle /\ RunIdle

\* a round of tokenize that pushes a token and goes on
LexToken ==
    /\ lex_state = "run"
    /\ \E r \in {tokenize_step(lexer, tokens)} :
           /\ r.state = "run"
           /\ lexer' = r.lexer
           /\ tokens' = r.tokens
           /\ lex_state' = r.state
           /\ lex_call' = [from |-> lexer, res |-> next_token(lexer)]
    /\ UNCHANGED <<varsParser, varsScope, varsEval, varsRun>>

\* the round of tokenize that returns: Ok(tokens), Err(e), or a panic
LexReturn ==
    /\ lex_state = "run"
    /\ \E r \in {tokenize_step(lexer, tokens)} :
           /\ r.state # "run"
           /\ lexer' = r.lexer
           /\ tokens' = r.tokens
           /\ lex_state' = r.state
           /\ lex_call' = [from |-> lexer, res |-> next_token(lexer)]
    /\ UNCHANGED <<varsParser, varsScope, varsEval, varsRun>>

NextLexer == LexToken \/ LexReturn

SpecLexer == InitLexer /\ [][NextLexer]_vars

-----------------------------------------------------------------------------
(* The parser specification: the public methods of a Parser built with     *)
(* Parser::new on a hand-built token vector, or with Parser::from_source   *)

InitParser ==
    /\ \E toks \in TokenVectors(MaxTokens) \cup LexedVectors \cup ListVectors :
           parser = ParserNew(toks)
    /\ p_call = NoCall
    /\ p_result = NoResult
    /\ p_loop = NoLoop
    /\ LexerIdle /\ ScopeIdle /\ EvalIdle /\ RunIdle

\* a call of Parser::parse_node at the current position
ParseNodeCall ==
    /\ p_result.kind # "Panic"
    /\ parser.pos <= Len(parser.tokens)
    /\ \E r \in {parse_node(parser.tokens, parser.pos)} :
           /\ parser' = [parser EXCEPT !.pos = r.pos]
           /\ p_call' = [method |-> "parse_node", pos |-> parser.pos]
           /\ p_result' = r
           /\ p_loop' = NoLoop
    /\ UNCHANGED <<varsLexer, varsScope, varsEval, varsRun>>

\* a call of Parser::parseProgram (Parser::parse) at the current position
ParseProgramCall ==
    /\ p_result.kind # "Panic"
    /\ parser.pos <= Len(parser.tokens)
    /\ \E l \in {parseProgram_loop(parser.tokens, parser.pos, <<>>)},
          r \in {parseProgram(parser.tokens, parser.pos)} :
           /\ parser' = [parser EXCEPT !.pos = r.pos]
           /\ p_call' = [method |-> "parseProgram", pos |-> parser.pos]
           /\ p_result' = r
           /\ p_loop' = [kind |-> l.kind, nodes |-> l.nodes]
    /\ UNCHANGED <<varsLexer, varsScope, varsEval, varsRun>>

NextParser == ParseNodeCall \/ ParseProgramCall

SpecParser == InitParser /\ [][NextParser]_vars

-----------------------------------------------------------------------------
(* The scope specification: Scope::new, set, get and drop on a few scopes  *)

ScopeNames == {NameX, NameY}

\* the bindings set: x to 1 or to 2; y is looked up and bound nowhere
ScopeBindings == {<<NameX, VNumber(One)>>, <<NameX, VNumber(Two)>>}

InitScope ==
    /\ scopes = RootScope
    /\ s_get = NoGet
    /\ LexerIdle /\ ParserIdle /\ EvalIdle /\ RunIdle

\* let scope = Scope::new(parent)
ScopeNewAct(parent) ==
    /\ Len(scopes) < MaxScopes
    /\ scopes' = ScopeNew(scopes, parent)
    /\ s_get' = NoGet
    /\ UNCHANGED <<varsLexer, varsParser, varsEval, varsRun>>

\* scope.set(name, value); the borrow held by a child scope forbids it on a
\* scope that is some live scope's parent
ScopeSetAct(s, name, value) ==
    /\ \A j \in 1..Len(scopes) : scopes[j].parent # s
    /\ scopes' = ScopeSet(scopes, s, name, value)
    /\ s_get' = NoGet
    /\ UNCHANGED <<varsLexer, varsParser, varsEval, varsRun>>

\* scope.get(name)
ScopeGetAct(s, name) ==
    /\ s_get' = [scope |-> s, name |-> name, result |-> ScopeGet(scopes, s, name)]
    /\ UNCHANGED <<scopes, varsLexer, varsParser, varsEval, varsRun>>

\* the scope created last goes out of scope
ScopeDropAct ==
    /\ Len(scopes) > 1
    /\ scopes' = ScopeDrop(scopes, Len(scopes) - 1)
    /\ s_get' = NoGet
    /\ UNCHANGED <<varsLexer, varsParser, varsEval, varsRun>>

NextScope ==
    \/ \E parent \in 0..Len(scopes) : ScopeNewAct(parent)
    \/ \E s \in 1..Len(scopes), b \in ScopeBindings : ScopeSetAct(s, b[1], b[2])
    \/ \E s \in 1..Len(scopes), name \in ScopeNames : ScopeGetAct(s, name)
    \/ ScopeDropAct

SpecScope == InitScope /\ [][NextScope]_vars

-----------------------------------------------------------------------------
(* The evaluator specification: Node::evaluate on a node and a scope chain *)

ParamNames == <<NameX, NameY, <<"z">>, <<"w">>, <<"v">>>>
Params(n) == SubSeq(ParamNames, 1, n)

\* bodies of user-defined functions: empty, the first or the second
\* parameter, an undefined call followed by a literal
Bodies ==
    {<<>>, <<Variable(NameX)>>, <<Variable(NameY)>>,
     <<FunctionCall(NameG, <<>>), Atom(VNumber(Two))>>}

FunctionValues ==
    {VFunction(UserDefined(Params(n), b)) : n \in 0..MaxArity, b \in Bodies}
    \cup {VFunction(Native(<<"n", "a", "t">>, Params(n), func)) :
              n \in 0..MaxArity, func \in {"first", "fail"}}

BindOpt(m, name, opt) == IF opt.some THEN MapInsert(m, name, opt.v) ELSE m

\* global scopes: f a function or unbound, x a number or unbound; y and g
\* are bound nowhere
Globals ==
    {BindOpt(BindOpt(EmptyMap, NameF, fv), NameX, xv) :
        fv \in {NoneV} \cup {SomeV(v) : v \in FunctionValues},
        xv \in {NoneV, SomeV(VNumber(One))}}

\* a global scope alone, or with a child scope that is empty or shadows x
EvalArenas ==
    {<<[variables |-> g, parent |-> 0]>> : g \in Globals}
    \cup {<<[variables |-> g, parent |-> 0], [variables |-> c, parent |-> 1]>> :
              g \in Globals, c \in {EmptyMap, MapInsert(EmptyMap, NameX, VNumber(Two))}}

\* argument nodes: a literal, an unbound variable, a call of an undefined name
ArgNodes == {Atom(VNumber(One)), Variable(NameY), FunctionCall(NameG, <<>>)}

RECURSIVE ArgLists(_)
ArgLists(n) ==
    IF n = 0 THEN {<<>>}
    ELSE LET shorter == ArgLists(n - 1)
         IN  shorter \cup {Append(a, x) : a \in {b \in shorter : Len(b) = n - 1},
                                          x \in ArgNodes}

\* two literals that differ, in both orders
OrderedArgs ==
    {<<Atom(VNumber(One)), Atom(VNumber(Two))>>, <<Atom(VNumber(Two)), Atom(VNumber(One))>>}

EvalNodes ==
    {Variable(NameX), Variable(NameY), NodeEOF, Atom(VNumber(One)),
     Atom(VList(<<Variable(NameX), Atom(VNumber(Two))>>)),
     Program(<<Atom(VNumber(One)), NodeEOF>>)}
    \cup {FunctionCall(name, args) : name \in {NameF, NameG, NameX},
                                     args \in ArgLists(MaxArgs)}
    \cup {FunctionCall(NameF, args) : args \in OrderedArgs}

InitEval ==
    /\ scopes \in EvalArenas
    /\ s_get = NoGet
    /\ e_call = NoEval
    /\ e_result = NoResult
    /\ LexerIdle /\ ParserIdle /\ RunIdle

\* node.evaluate(&scope) for the scope with index s
EvaluateCall(node, s) ==
    /\ e_result.kind # "Panic"
    /\ \E r \in {Evaluate(node, scopes, s)} :
           /\ e_call' = [scope |-> s, node |-> node]
           /\ e_result' = r
           /\ scopes' = r.scopes
    /\ UNCHANGED <<s_get, varsLexer, varsParser, varsRun>>

NextEval == \E node \in EvalNodes, s \in 1..Len(scopes) : EvaluateCall(node, s)

SpecEval == InitEval /\ [][NextEval]_vars

-----------------------------------------------------------------------------
(* The interpretator specification: the host binds names in the global     *)
(* scope and calls Interpretator::run                                      *)

HostValues ==
    {VNumber(One),
     VFunction(UserDefined(<<NameX, NameY>>, <<Variable(NameX)>>)),
     VFunction(Native(<<"n", "a", "t">>, <<NameX>>, "first"))}

\* source texts: the scenarios of the specification and the enumerated texts
Programs ==
    {<<"(", "f", " ", "1", ")">>,
     <<"(", "f", " ", "1", " ", "2", ")">>,
     <<"(", "f", " ", "1", " ", "2", " ", "3", ")">>,
     <<"(", "f", " ", "1", " ", "(", "g", ")", ")">>,
     <<"(", "f", " ", "x", " ", "1", ")">>,
     <<"(", "b", "o", "g", "u", "s", " ", "1", " ", "2", ")">>,
     <<"(", "x", ")">>,
     <<"\"", "a">>}

RunSources == Programs \cup Texts(MaxRunLen)

InitRun ==
    /\ scopes = RootScope
    /\ s_get = NoGet
    /\ run_source = <<>>
    /\ run_result = NoResult
    /\ LexerIdle /\ ParserIdle /\ EvalIdle

\* interpretator.global_scope.set(name, value)
HostSet(name, value) ==
    /\ run_result.kind # "Panic"
    /\ scopes' = ScopeSet(scopes, 1, name, value)
    /\ run_source' = <<>>
    /\ run_result' = NoResult
    /\ UNCHANGED <<s_get, varsLexer, varsParser, varsEval>>

\* interpretator.run(source)
Run(source) ==
    /\ run_result.kind # "Panic"
    /\ \E r \in {run(source, scopes)} :
           /\ run_source' = source
           /\ run_result' = r
           /\ scopes' = r.scopes
    /\ UNCHANGED <<s_get, varsLexer, varsParser, varsEval>>

Next ==
    \/ \E name \in {NameF, NameX}, value \in HostValues : HostSet(name, value)
    \/ \E source \in RunSources : Run(source)

Spec == InitRun /\ [][Next]_vars

-----------------------------------------------------------------------------
(* Properties *)

\* the scopes from s outwards: s, its parent, ..., the root
RECURSIVE ChainOf(_, _)
ChainOf(sc, s) == IF s = 0 THEN <<>> ELSE <<s>> \o ChainOf(sc, sc[s].parent)

\* the binding of name in the first scope of the chain of s that has one
NearestBinding(sc, s, name) ==
    LET chain   == ChainOf(sc, s)
        binders == {i \in DOMAIN chain : name \in DOMAIN sc[chain[i]].variables}
    IN  IF binders = {} THEN NoneV
        ELSE LET first == CHOOSE i \in binders : \A j \in binders : i <= j
             IN  SomeV(sc[chain[first]].variables[name])

EvaluatedA(type) == e_call.scope # 0 /\ e_call.node.type = type

\* C1: evaluating Variable(name) yields the value of the innermost binding
\* of name, and a "not defined" error value when no scope of the chain
\* binds name.
C1_VariableLookup ==
    EvaluatedA("Variable") =>
        LET b == NearestBinding(scopes, e_call.scope, e_call.node.name)
        IN  IF b.some THEN e_result.kind = "Ok" /\ e_result.v = b.v
            ELSE e_result.kind = "Err" /\ e_result.err = NotDefined(e_call.node.name)

\* C2: a call of a name bound to a function of n parameters with k # n
\* arguments fails with the arity error naming the function, n and k,
\* whatever the arguments are, and no native callback is invoked.
C2_ArityError ==
    EvaluatedA("FunctionCall") =>
        LET b == NearestBinding(scopes, e_call.scope, e_call.node.name)
        IN  (b.some /\ b.v.t = "Function"
                /\ Len(e_call.node.args) # Len(b.v.f.args)) =>
                /\ e_result.kind = "Err"
                /\ e_result.err = ArityError(e_call.node.name, Len(b.v.f.args),
                                             Len(e_call.node.args))
                /\ e_result.calls = <<>>

\* a call with too many arguments, one of which would panic if evaluated,
\* of a native function, was answered with an error
C2_Witness ==
    /\ EvaluatedA("FunctionCall")
    /\ e_call.node.name = NameF
    /\ NameF \in DOMAIN scopes[1].variables
    /\ scopes[1].variables[NameF].f.variant = "Native"
    /\ Len(e_call.node.args) = 2
    /\ Len(scopes[1].variables[NameF].f.args) = 1
    /\ e_call.node.args[1] = Variable(NameY)
    /\ e_result.kind = "Err"

\* C3, lookup: get(name) returns the binding of the nearest scope of the
\* chain that binds name, or nothing when none does.
C3_GetNearest ==
    s_get.scope # 0 => s_get.result = NearestBinding(scopes, s_get.scope, s_get.name)

\* C3, frame: set(name, v) on a scope writes into that scope only; every
\* other scope is unchanged and resolves every name as before.
C3_SetFrame ==
    \A s \in 1..Len(scopes), b \in ScopeBindings :
        ScopeSetAct(s, b[1], b[2]) =>
            /\ Len(scopes') = Len(scopes)
            /\ scopes'[s].parent = scopes[s].parent
            /\ b[1] \in DOMAIN scopes'[s].variables
            /\ scopes'[s].variables[b[1]] = b[2]
            /\ \A j \in 1..Len(scopes) \ {s} :
                  /\ scopes'[j] = scopes[j]
                  /\ \A n \in ScopeNames :
                        NearestBinding(scopes', j, n) = NearestBinding(scopes, j, n)

\* C3: for any chain of scopes and any sequence of set operations, set
\* writes into the child only and get returns the nearest binding.
C3_ScopeChain == []C3_GetNearest /\ [][C3_SetFrame]_vars

\* in a chain of three scopes whose root binds x to 1 and whose innermost
\* scope binds x to 2, get(x) on the middle scope returned the root's 1
C3_Witness ==
    /\ Len(scopes) = 3
    /\ scopes[3].parent = 2 /\ scopes[2].parent = 1
    /\ scopes[1].variables = MapInsert(EmptyMap, NameX, VNumber(One))
    /\ scopes[2].variables = EmptyMap
    /\ scopes[3].variables = MapInsert(EmptyMap, NameX, VNumber(Two))
    /\ s_get = [scope |-> 2, name |-> NameX, result |-> SomeV(VNumber(One))]

LiteralTokens == {"Identifier", "Number", "String", "Bool"}

\* ( followed by nothing but an identifier and literals up to the
\* end-of-input token: the call production meets the end of input, in
\* callee position when nothing stands between
UnclosedCall(T) ==
    /\ Len(T) >= 2
    /\ T[1] = TokOpenParen
    /\ T[Len(T)] = TokEOF
    /\ Len(T) > 2 => T[2].tok = "Identifier"
    /\ \A i \in 3..(Len(T) - 1) : T[i].tok \in LiteralTokens

\* C4: when the function-call production meets the end-of-input token
\* before the closing parenthesis, in callee or in argument position,
\* parsing returns UnexpectedEndOfFile and reads no token past the end.
C4_UnclosedCallIsEndOfFile ==
    (p_call.method = "parse_node" /\ p_call.pos = 0 /\ UnclosedCall(parser.tokens)) =>
        p_result.kind = "Err" /\ p_result.err = UnexpectedEndOfFile

UnhandledTokens == {"CloseParen", "CloseBracket", "OpenBrace", "CloseBrace", "Dot"}

\* C5: parse_node on a closing parenthesis, closing bracket, brace or dot
\* returns the error UnexpectedToken, at top level and inside the list and
\* function-call productions.
C5_OtherTokenIsUnexpectedToken ==
    /\ (p_call.method = "parse_node" /\ p_call.pos < Len(parser.tokens)
          /\ parser.tokens[p_call.pos + 1].tok \in UnhandledTokens) =>
            p_result.kind = "Err" /\ p_result.err.e = "UnexpectedToken"
    /\ p_result.kind = "Panic" => p_result.why # "unimplemented"

\* C6: a successful parseProgram returns a Program whose nodes are not
\* empty and end with the end-of-input node; when the loop leaves an empty
\* node list or one not ending with end-of-input, parseProgram fails with
\* ParserStateError; for a token vector of the lexer the end-of-input node
\* is in the last place only.
C6_ProgramEndsWithEOF ==
    p_call.method = "parseProgram" =>
        /\ p_result.kind = "Ok" =>
              /\ p_result.node.type = "Program"
              /\ p_result.node.nodes = p_loop.nodes
              /\ p_result.node.nodes # <<>>
              /\ p_result.node.nodes[Len(p_result.node.nodes)] = NodeEOF
        /\ (p_loop.kind = "Ok"
              /\ (p_loop.nodes = <<>> \/ p_loop.nodes[Len(p_loop.nodes)] # NodeEOF)) =>
              p_result.kind = "Err" /\ p_result.err.e = "ParserStateError"
        /\ (p_result.kind = "Ok" /\ parser.tokens \in LexedVectors) =>
              \A i \in 1..(Len(p_result.node.nodes) - 1) :
                  p_result.node.nodes[i] # NodeEOF

\* parseProgram succeeded on a token vector of the lexer with three nodes
C6_Witness ==
    /\ p_call = [method |-> "parseProgram", pos |-> 0]
    /\ parser.tokens \in LexedVectors
    /\ p_result.kind = "Ok"
    /\ Len(p_result.node.nodes) = 3

\* C7: tokenize ends with a token sequence or a LexerError value for every
\* source text, texts with characters of more than one byte included; the
\* cursor reads no character position that does not exist.
C7_TokenizeIsTotal == lex_state \in {"idle", "run", "ok", "err"} /\ ~lexer.panic

\* C8: a token sequence tokenize returns holds exactly one end-of-input
\* token, in the last place; the empty text and whitespace give [EOF].
C8_OneEOFLast ==
    lex_state = "ok" =>
        /\ tokens # <<>>
        /\ tokens[Len(tokens)] = TokEOF
        /\ \A i \in 1..(Len(tokens) - 1) : tokens[i] # TokEOF
        /\ (\A i \in DOMAIN lexer.input : is_whitespace(lexer.input[i])) =>
              tokens = <<TokEOF>>

\* tokenize returned three tokens or more
C8_Witness == lex_state = "ok" /\ Len(tokens) >= 3

\* C9: a run call that fails with a lexer, parser or evaluation error
\* leaves the global scope, which the next run call evaluates against,
\* with the bindings and values it had.
C9_FailedRunKeepsGlobals ==
    [][\A source \in RunSources :
          (Run(source) /\ run_result'.kind = "Err") => scopes' = scopes]_vars

\* (f 1 (g)) with f bound to a function of two parameters failed in the
\* evaluation of its second argument, after the first was bound
C9_Witness ==
    /\ run_source = <<"(", "f", " ", "1", " ", "(", "g", ")", ")">>
    /\ NameF \in DOMAIN scopes[1].variables
    /\ scopes[1].variables[NameF] =
          VFunction(UserDefined(<<NameX, NameY>>, <<Variable(NameX)>>))
    /\ run_result.kind = "Err"
    /\ run_result.err = [error |-> "EvaluationError", e |-> NotDefined(NameG)]

\* C10: a call of a name bound in no scope fails with "not defined", and of
\* a name bound to a value that is no function with "not a function", for
\* every argument list and before any argument is evaluated.
C10_CalleeResolution ==
    EvaluatedA("FunctionCall") =>
        LET b == NearestBinding(scopes, e_call.scope, e_call.node.name)
        IN  /\ ~b.some =>
                  /\ e_result.kind = "Err"
                  /\ e_result.err = NotDefined(e_call.node.name)
                  /\ e_result.calls = <<>>
            /\ (b.some /\ b.v.t # "Function") =>
                  /\ e_result.kind = "Err"
                  /\ e_result.err = NotAFunction(e_call.node.name)
                  /\ e_result.calls = <<>>

\* x, bound to a number in the global scope only, was called from a child
\* scope with an argument that would panic if evaluated
C10_Witness ==
    /\ EvaluatedA("FunctionCall")
    /\ e_call.scope = 2
    /\ e_call.node.name = NameX
    /\ scopes[2].variables = EmptyMap
    /\ e_call.node.args = <<Variable(NameY)>>
    /\ e_result.kind = "Err"
    /\ e_result.err = NotAFunction(NameX)

\* the tokens a node was built from
RECURSIVE TokensOf(_)
RECURSIVE TokensOfAll(_)
TokensOf(node) ==
    CASE node.type = "Variable" -> <<TokIdentifier(node.name)>>
      [] node.type = "Atom" /\ node.v.t = "Number" -> <<TokNumber(node.v.n)>>
      [] node.type = "Atom" /\ node.v.t = "String" -> <<TokString(node.v.s)>>
      [] node.type = "Atom" /\ node.v.t = "Boolean" -> <<TokBool(node.v.b)>>
      [] node.type = "Atom" /\ node.v.t = "List" ->
           <<TokOpenBracket>> \o TokensOfAll(node.v.l) \o <<TokCloseBracket>>
      [] OTHER -> <<>>
TokensOfAll(nodes) ==
    IF nodes = <<>> THEN <<>> ELSE TokensOf(Head(nodes)) \o TokensOfAll(Tail(nodes))

\* where the list opened before index i ends: at its closing bracket, at
\* the end-of-input token, or at a token of another production
RECURSIVE ListScan(_, _, _)
ListScan(T, i, depth) ==
    IF i > Len(T) THEN [end |-> "none"]
    ELSE CASE T[i] = TokEOF -> [end |-> "eof"]
           [] T[i] = TokOpenBracket -> ListScan(T, i + 1, depth + 1)
           [] T[i] = TokCloseBracket ->
                IF depth = 1 THEN [end |-> "closed", at |-> i]
                ELSE ListScan(T, i + 1, depth - 1)
           [] T[i].tok \in LiteralTokens -> ListScan(T, i + 1, depth)
           [] OTHER -> [end |-> "other"]

\* C11: on a token sequence that ends with the end-of-input token, a list
\* production that meets the end-of-input token before its closing bracket,
\* at any nesting depth, returns UnexpectedEndOfFile; one that finds its
\* closing bracket returns Atom(List) of the elements in source order and
\* leaves the position after the closing bracket.
C11_ListProduction ==
    (/\ p_call.method = "parse_node"
     /\ p_call.pos < Len(parser.tokens)
     /\ parser.tokens[p_call.pos + 1] = TokOpenBracket
     /\ parser.tokens[Len(parser.tokens)] = TokEOF) =>
        LET m == ListScan(parser.tokens, p_call.pos + 2, 1)
        IN  /\ m.end = "eof" =>
                  p_result.kind = "Err" /\ p_result.err = UnexpectedEndOfFile
            /\ m.end = "closed" =>
                  /\ p_result.kind = "Ok"
                  /\ p_result.node.type = "Atom"
                  /\ p_result.node.v.t = "List"
                  /\ TokensOf(p_result.node) =
                        SubSeq(parser.tokens, p_call.pos + 1, m.at)
                  /\ p_result.pos = m.at
                  /\ parser.pos = m.at

\* the list nested in an unclosed list met the end-of-input token
C11_Witness ==
    /\ p_call = [method |-> "parse_node", pos |-> 0]
    /\ parser.tokens =
          <<TokOpenBracket, TokNumber(One), TokOpenBracket, TokNumber(Two), TokEOF>>
    /\ p_result.kind = "Err"
    /\ p_result.err = UnexpectedEndOfFile

\* the nested list of the parser's test was parsed up to its closing bracket
C11_ClosedNested ==
    /\ p_call = [method |-> "parse_node", pos |-> 0]
    /\ Len(parser.tokens) = 9
    /\ p_result.kind = "Ok"
    /\ parser.pos = 8

\* the characters from the cursor of L on: the current one and those unread
Rest(L) == IF L.ch = None THEN <<>> ELSE SubSeq(L.input, L.read_position, Len(L.input))

\* s without its leading whitespace
RECURSIVE DropWhitespace(_)
DropWhitespace(s) ==
    IF s # <<>> /\ is_whitespace(Head(s)) THEN DropWhitespace(Tail(s)) ELSE s

\* the characters of s before the first whitespace or character of stops
RECURSIVE RunUpTo(_, _)
RunUpTo(s, stops) ==
    IF s = <<>> \/ is_whitespace(Head(s)) \/ Head(s) \in stops THEN <<>>
    ELSE <<Head(s)>> \o RunUpTo(Tail(s), stops)

\* what the last next_token call of tokenize had before it, whitespace skipped
Upcoming == DropWhitespace(Rest(lex_call.from))
LexCalled == lex_call.res.kind # "None"

\* C12: when the next non-whitespace character is a digit, the characters
\* up to the next whitespace or one of ( ) [ ] { } are read, a dot included;
\* if they are a number literal one Number token of their value is pushed
\* and the cursor is left at the stopping character, and if not tokenize
\* fails with InvalidNumber.
C12_DigitRun ==
    (LexCalled /\ Upcoming # <<>> /\ is_numeric(Head(Upcoming))) =>
        LET text == RunUpTo(Upcoming, Delimiters)
            n    == ParseF64(text)
        IN  IF n.ok
              THEN /\ lex_state = "run"
                   /\ lex_call.res.kind = "Ok"
                   /\ lex_call.res.tok = TokNumber(n.n)
                   /\ tokens # <<>> /\ tokens[Len(tokens)] = TokNumber(n.n)
                   /\ Rest(lexer) = SubSeq(Upcoming, Len(text) + 1, Len(Upcoming))
            ELSE /\ lex_state = "err"
                 /\ lex_call.res.kind = "Err"
                 /\ lex_call.res.err.e = "InvalidNumber"

\* the text given to the lexer has characters of one byte only
OneByteText == \A i \in DOMAIN lexer.input : Utf8Len(lexer.input[i]) = 1

\* the claim of C12 on the texts whose characters are one byte each
C12_DigitRunOneByte == OneByteText => C12_DigitRun

\* 1.. was read whole and refused
C12_TwoDots ==
    /\ lexer.input = <<"1", ".", ".">>
    /\ lex_state = "err"
    /\ lex_call.res.err = [e |-> "InvalidNumber", text |-> <<"1", ".", ".">>]

\* 1.1 was read through its dot and gave one Number token
C12_DotInside ==
    /\ lexer.input = <<"1", ".", "1">>
    /\ tokens = <<TokNumber([num |-> 11, den |-> 10])>>

\* the scope of the last call and the binding of its callee there
Callee == NearestBinding(scopes, e_call.scope, e_call.node.name)

\* the last call was of a function, with as many arguments as parameters
CalledFunction(variant) ==
    /\ EvaluatedA("FunctionCall")
    /\ Callee.some
    /\ Callee.v.t = "Function"
    /\ Callee.v.f.variant = variant
    /\ Len(e_call.node.args) = Len(Callee.v.f.args)

\* sc with the literals args bound to names in the scope new, from the i-th on
RECURSIVE BindLiterals(_, _, _, _, _)
BindLiterals(sc, new, names, args, i) ==
    IF i > Len(args) THEN sc
    ELSE BindLiterals([sc EXCEPT ![new].variables = MapInsert(@, names[i], args[i].v)],
                      new, names, args, i + 1)

\* the scopes a body is evaluated in when the arguments of the last call
\* are literals: the parameter scope under the caller's, and the body's
\* scope under that
BodyScopes ==
    LET new == Len(scopes) + 1
        sc1 == BindLiterals(Append(scopes, [variables |-> EmptyMap, parent |-> e_call.scope]),
                            new, Callee.v.f.args, e_call.node.args, 1)
    IN  Append(sc1, [variables |-> EmptyMap, parent |-> new])

LiteralArgs == \A i \in DOMAIN e_call.node.args : e_call.node.args[i].type = "Atom"

\* C13: a call of a user-defined function with as many arguments as
\* parameters returns what a Program of the body nodes returns in the
\* callee's scope: the error of the first body node that fails, whichever
\* it is, and else the value of the last node (Null for an empty body).
C13_BodyAsProgram ==
    (CalledFunction("UserDefined") /\ LiteralArgs) =>
        LET expected == evaluate_program(Callee.v.f.body, 1, BodyScopes,
                                         Len(BodyScopes), VNull, <<>>)
        IN  /\ e_result.kind = expected.kind
            /\ expected.kind = "Ok" => e_result.v = expected.v
            /\ expected.kind = "Err" => e_result.err = expected.err

\* the elements of the list v, and the values of the map v, can be
\* evaluated: they are literals and variables bound in the chain of s
RECURSIVE Forcible(_, _, _)
Forcible(v, sc, s) ==
    CASE v.t = "List" ->
           \A i \in DOMAIN v.l :
               \/ v.l[i].type = "Atom" /\ Forcible(v.l[i].v, sc, s)
               \/ v.l[i].type = "Variable" /\ NearestBinding(sc, s, v.l[i].name).some
      [] v.t = "Map" -> \A k \in DOMAIN v.m : Forcible(v.m[k], sc, s)
      [] OTHER -> TRUE

\* v with its lists forced: each element replaced by the Atom of its value
RECURSIVE Forced(_, _, _)
Forced(v, sc, s) ==
    CASE v.t = "List" ->
           VList([i \in DOMAIN v.l |->
                    IF v.l[i].type = "Atom" THEN Atom(Forced(v.l[i].v, sc, s))
                    ELSE Atom(NearestBinding(sc, s, v.l[i].name).v)])
      [] v.t = "Map" -> VMap([k \in DOMAIN v.m |-> Forced(v.m[k], sc, s)])
      [] OTHER -> v

\* C14: evaluating Atom(v) with v a List evaluates every element in the
\* given scope and returns the List of the Atoms of the values, nested
\* lists and the values of a Map included; any other v is returned as is.
C14_AtomForcesList ==
    (EvaluatedA("Atom") /\ Forcible(e_call.node.v, scopes, e_call.scope)) =>
        /\ e_result.kind = "Ok"
        /\ e_result.v = Forced(e_call.node.v, scopes, e_call.scope)

\* what the i-th argument of the last call evaluates to in the caller's scope
ArgResult(i) == Evaluate(e_call.node.args[i], scopes, e_call.scope)
FailingArgs == {i \in DOMAIN e_call.node.args : ArgResult(i).kind # "Ok"}
ArgValues == [i \in DOMAIN e_call.node.args |-> ArgResult(i).v]

\* C15, results: in a call with as many arguments as parameters, the
\* first argument in source order that fails ends the call with its
\* failure and no callback is invoked; else a native callback is invoked
\* once with the argument values in order, and in a user-defined body the
\* i-th parameter name resolves to the i-th argument value, whatever the
\* caller's chain binds that name to.
C15_ArgumentValues ==
    \A variant \in {"Native", "UserDefined"} :
        CalledFunction(variant) =>
            IF FailingArgs # {}
              THEN LET k == CHOOSE i \in FailingArgs : \A j \in FailingArgs : i <= j
                   IN  /\ e_result.kind = ArgResult(k).kind
                       /\ e_result.kind = "Err" => e_result.err = ArgResult(k).err
                       /\ e_result.calls = <<>>
            ELSE /\ variant = "Native" =>
                       e_result.calls =
                           <<[name |-> Callee.v.f.name, args |-> ArgValues]>>
                 /\ variant = "UserDefined" =>
                       \A i \in DOMAIN Callee.v.f.args :
                           Callee.v.f.body = <<Variable(Callee.v.f.args[i])>> =>
                               e_result.kind = "Ok" /\ e_result.v = ArgValues[i]

\* C15, frame: a call that returns leaves every scope as it was
C15_CallerScopeKept ==
    (e_call'.scope # 0 /\ e_call'.node.type = "FunctionCall"
        /\ e_result'.kind # "Panic") => scopes' = scopes

C15_FirstFailureWins ==
    /\ CalledFunction("Native")
    /\ e_call.node.args = <<FunctionCall(NameG, <<>>), Variable(NameY)>>
    /\ e_result.kind = "Err"
    /\ e_result.err = NotDefined(NameG)

\* C16: a name in the body of a user-defined function that is no parameter
\* resolves, at call time, to the nearest binding in the chain of the scope
\* the call is made from, so that one function value called from scopes
\* binding the name differently returns the binding of each call site.
C16_CallSiteResolution ==
    (CalledFunction("UserDefined") /\ FailingArgs = {}) =>
        \A name \in ScopeNames :
            (/\ Callee.v.f.body = <<Variable(name)>>
             /\ \A i \in DOMAIN Callee.v.f.args : Callee.v.f.args[i] # name
             /\ NearestBinding(scopes, e_call.scope, name).some) =>
                /\ e_result.kind = "Ok"
                /\ e_result.v = NearestBinding(scopes, e_call.scope, name).v

\* f, bound in the global scope that binds x to 1, with no parameter and
\* body x, was called from the child scope that binds x to 2 and returned 2
C16_Witness ==
    /\ CalledFunction("UserDefined")
    /\ Callee.v.f = UserDefined(<<>>, <<Variable(NameX)>>)
    /\ e_call.scope = 2
    /\ scopes[1].variables[NameF] = Callee.v
    /\ NameX \in DOMAIN scopes[1].variables
    /\ scopes[1].variables[NameX] = VNumber(One)
    /\ scopes[2].variables = MapInsert(EmptyMap, NameX, VNumber(Two))
    /\ e_result.kind = "Ok"
    /\ e_result.v = VNumber(Two)

\* C17: when the next non-whitespace character is -, the characters after
\* it up to the next whitespace or delimiter are read as a number: if they
\* are a number literal one Number token of the negated value is pushed,
\* and if not (nothing, or an identifier character, follows the -)
\* tokenize fails with InvalidNumber; no Identifier token starts with -.
C17_MinusStartsNumber ==
    (LexCalled /\ Upcoming # <<>> /\ Head(Upcoming) = "-") =>
        LET text == RunUpTo(Tail(Upcoming), Delimiters)
            n    == ParseF64(text)
        IN  IF n.ok
              THEN /\ lex_state = "run"
                   /\ lex_call.res.kind = "Ok"
                   /\ lex_call.res.tok = TokNumber(NegF64(n.n))
                   /\ tokens # <<>> /\ tokens[Len(tokens)] = TokNumber(NegF64(n.n))
                   /\ Rest(lexer) = SubSeq(Upcoming, Len(text) + 2, Len(Upcoming))
            ELSE /\ lex_state = "err"
                 /\ lex_call.res.kind = "Err"
                 /\ lex_call.res.err.e = "InvalidNumber"

\* the claim of C17 on the texts whose characters are one byte each
C17_MinusOneByte == OneByteText => C17_MinusStartsNumber

\* -1 followed by a closing parenthesis gave the Number token of -1
C17_Negated ==
    /\ lexer.input = <<"-", "1", ")">>
    /\ tokens = <<TokNumber([num |-> -1, den |-> 1])>>

\* c starts an identifier: it is no delimiter, dot, -, " or digit
StartsIdentifier(c) == c \notin Delimiters \cup {".", "-", "\""} /\ ~is_numeric(c)

\* the token of an identifier text
IdentifierToken(text) ==
    IF text = <<"t", "r", "u", "e">> THEN TokBool(TRUE)
    ELSE IF text = <<"f", "a", "l", "s", "e">> THEN TokBool(FALSE)
    ELSE TokIdentifier(text)

\* C18: when the next non-whitespace character starts an identifier, the
\* token's text is the run of characters up to the next whitespace, the
\* next of ( ) [ ] { } or the end of input, and nothing else ends the run;
\* the token is Bool for the texts true and false and Identifier otherwise.
C18_IdentifierRun ==
    (LexCalled /\ Upcoming # <<>> /\ StartsIdentifier(Head(Upcoming))) =>
        LET text == RunUpTo(Upcoming, Delimiters)
        IN  /\ lex_state = "run"
            /\ lex_call.res.kind = "Ok"
            /\ lex_call.res.tok = IdentifierToken(text)
            /\ tokens # <<>> /\ tokens[Len(tokens)] = IdentifierToken(text)
            /\ Rest(lexer) = SubSeq(Upcoming, Len(text) + 1, Len(Upcoming))

\* the claim of C18 on the texts whose characters are one byte each
C18_IdentifierOneByte == OneByteText => C18_IdentifierRun

\* C19: the value Interpretator::run returns on success is Null for every
\* source text: the Program ends with the end-of-input node, whose value,
\* Null, is the value of the Program.
C19_RunReturnsNull == run_result.kind = "Ok" => run_result.v = VNull

\* (f 1) with f bound to the native function that returns its first
\* argument: the callback was given 1, and run returned Null
C19_Witness ==
    /\ run_source = <<"(", "f", " ", "1", ")">>
    /\ run_result.kind = "Ok"
    /\ run_result.calls = <<[name |-> <<"n", "a", "t">>, args |-> <<VNumber(One)>>]>>
    /\ run_result.v = VNull

====
